---- MODULE Spec2Model ----
(***************************************************************************)
(* Model of src/src/app.py: the request handler predict_depression of the  *)
(* depression risk screener, with the artifacts it reads (classifier,      *)
(* label encoders, feature schema) and its three label maps.               *)
(*                                                                         *)
(* Conventions.  A Python value that may be None is a sequence of length   *)
(* at most one: None is << >> and the value v is << v >>.  Real numbers    *)
(* are scaled integers: a CGPA in tenths, a probability in basis points    *)
(* (1/10000).  A data frame of one row is a function from column names to  *)
(* the value of the row in that column; the frame handed to the classifier *)
(* is the sequence of << column, value >> in column order.                 *)
(***************************************************************************)
EXTENDS Integers, Sequences, FiniteSets, TLC

VARIABLES
    model_pipeline,        \* app.py:7   the fitted classifier
    encoders,              \* app.py:8   column -> classes_ of its LabelEncoder
    feature_names,         \* app.py:12  the schema: ordered column names
    pressure_map,          \* app.py:16
    satisfaction_map,      \* app.py:21
    financial_stress_map,  \* app.py:26
    pc,                    \* position of the running call
    args,                  \* the arguments of the running call
    acad_press, work_press, study_sat, job_sat, finance_stress,
    input_data,            \* app.py:55
    df_input,              \* app.py:75-78, after the label encoders
    df_encoded,            \* app.py:80-84
    df_final,              \* app.py:85
    prob,                  \* app.py:88
    result,                \* app.py:101 the returned triple
    error,                 \* message of the gr.Error raised
    history                \* observer: the previous call, its vector and outcome

artifacts == << model_pipeline, encoders, feature_names,
                pressure_map, satisfaction_map, financial_stress_map >>
locals == << acad_press, work_press, study_sat, job_sat, finance_stress,
             input_data, df_input, df_encoded, df_final, prob, result, error >>
vars == << artifacts, pc, args, locals, history >>

None == << >>
Some(v) == << v >>
Val(o) == o[1]

(***************************************************************************)
(* Python helpers                                                          *)
(***************************************************************************)
\* Truthiness of an optional string: None and "" are falsy.
Falsy(o) == o = None \/ Val(o) = ""

\* Variant: a missing key always yields 0.
GetOrZero(map, key, default) ==
    IF key # None /\ Val(key) \in DOMAIN map THEN map[Val(key)] ELSE 0

\* dict.get(key, default) with a key that may be None (never a key here).
Get(map, key, default) ==
    IF key # None /\ Val(key) \in DOMAIN map THEN map[Val(key)] ELSE default

Whitespace == {" ", "\t", "\n"}

RECURSIVE lstrip(_)
lstrip(s) == IF Len(s) > 0 /\ Head(s) \in Whitespace THEN lstrip(Tail(s)) ELSE s

RECURSIVE rstrip(_)
rstrip(s) ==
    IF Len(s) > 0 /\ SubSeq(s, Len(s), Len(s)) \in Whitespace
    THEN rstrip(SubSeq(s, 1, Len(s) - 1)) ELSE s

\* str.strip()
strip(s) == rstrip(lstrip(s))

RECURSIVE SumValues(_)
SumValues(row) == IF row = << >> THEN 0 ELSE Head(row)[2] + SumValues(Tail(row))

Min(a, b) == IF a < b THEN a ELSE b
Max(a, b) == IF a > b THEN a ELSE b

(***************************************************************************)
(* Module-level maps, app.py:14-28                                         *)
(***************************************************************************)
PressureMap ==
    ("0 = No pressure" :> 0) @@ ("1 = Little" :> 1) @@ ("2 = Average" :> 2) @@
    ("3 = High" :> 3) @@ ("4 = Very high" :> 4) @@ ("5 = Very very high" :> 5)

SatisfactionMap ==
    ("0 = Very Dissatisfied" :> 0) @@ ("1 = Dissatisfied" :> 1) @@
    ("2 = Neutral" :> 2) @@ ("3 = Satisfied" :> 3) @@
    ("4 = Very Satisfied" :> 4) @@ ("5 = Extremely Satisfied" :> 5)

FinancialStressMap ==
    ("1 = No Stress" :> 1) @@ ("2 = Low" :> 2) @@ ("3 = Moderate" :> 3) @@
    ("4 = High" :> 4) @@ ("5 = Extreme" :> 5)

(***************************************************************************)
(* Columns of the input row, app.py:55-71                                  *)
(***************************************************************************)
EncodedCols == << "Gender", "Have you ever had suicidal thoughts ?",
                  "Family History of Mental Illness" >>

\* Columns holding text when get_dummies runs (object dtype): the text
\* columns of input_data that no label encoder replaced by a code.
ObjectCols == { "Working Professional or Student", "Profession",
                "Sleep Duration", "Dietary Habits" }

\* Columns holding numbers when get_dummies runs.
NumericCols == { "Gender", "Age", "Academic Pressure", "Work Pressure", "CGPA",
                 "Study Satisfaction", "Job Satisfaction",
                 "Have you ever had suicidal thoughts ?", "Work/Study Hours",
                 "Financial Stress", "Family History of Mental Illness" }

(***************************************************************************)
(* The artifacts loaded at start-up, app.py:6-12.  They are produced       *)
(* outside the repository; the deployments below are the ones explored.    *)
(***************************************************************************)
\* classes_ of each fitted LabelEncoder, sorted as LabelEncoder keeps them.
FittedEncoders ==
    ("Gender" :> << "Female", "Male" >>) @@
    ("Have you ever had suicidal thoughts ?" :> << "No", "Yes" >>) @@
    ("Family History of Mental Illness" :> << "No", "Yes" >>)

FullSchema ==
    << "Gender", "Age", "Academic Pressure", "Work Pressure", "CGPA",
       "Study Satisfaction", "Job Satisfaction",
       "Have you ever had suicidal thoughts ?", "Work/Study Hours",
       "Financial Stress", "Family History of Mental Illness",
       "Working Professional or Student_Student",
       "Working Professional or Student_Working Professional",
       "Profession_Student", "Profession_Teacher", "Profession_Chef",
       "Sleep Duration_5-6 hours", "Sleep Duration_7-8 hours",
       "Sleep Duration_Less than 5 hours", "Sleep Duration_More than 8 hours",
       "Dietary Habits_Healthy", "Dietary Habits_Moderate",
       "Dietary Habits_Unhealthy" >>

\* A schema in another order that omits generated columns, names a text
\* column by its raw name and names a column no input generates.
ShortSchema ==
    << "Dietary Habits_Unhealthy", "Financial Stress", "Profession",
       "Degree_BSc", "CGPA", "Work Pressure", "Profession_Teacher", "Age" >>

\* A classifier: the number of columns it was fitted on and the parameters of
\* its score, in basis points.
Classifier(n, intercept, coef) ==
    [ n_features_in |-> n, intercept |-> intercept, coef |-> coef ]

Thresholds == { 0, 2999, 3000, 3001, 6999, 7000, 7001, 10000 }

Deployments ==
    { [ model |-> Classifier(Len(FullSchema), p, 0), schema |-> FullSchema ]
        : p \in Thresholds }
    \cup
    { [ model |-> Classifier(Len(FullSchema), 1500, 40), schema |-> FullSchema ],
      [ model |-> Classifier(Len(ShortSchema), 2000, 45), schema |-> ShortSchema ],
      [ model |-> Classifier(Len(FullSchema), 2000, 45), schema |-> ShortSchema ] }

(***************************************************************************)
(* predict_depression, app.py:30-104, as pure steps                        *)
(***************************************************************************)
RequiredFieldsMessage == "Please fill in all required fields before submitting."
CgpaMessage == "Please provide a valid CGPA for Student status."
ProfessionMessage == "Please specify your Profession."
PredictionErrorPrefix == "An error occurred during prediction: "
ValidationMessages == { RequiredFieldsMessage, CgpaMessage, ProfessionMessage }

\* Variant: the family history is not among the required fields.
RequiredMissingButFamily(a) ==
    \/ Falsy(a.gender) \/ Falsy(a.status) \/ Falsy(a.sleep)
    \/ Falsy(a.diet) \/ Falsy(a.suicide)

\* Variant: the name is required too.
RequiredMissingOrName(a) ==
    \/ Falsy(a.name)
    \/ Falsy(a.gender) \/ Falsy(a.status) \/ Falsy(a.sleep)
    \/ Falsy(a.diet) \/ Falsy(a.suicide) \/ Falsy(a.family_hist)

\* app.py:36
RequiredMissing(a) ==
    \/ Falsy(a.gender) \/ Falsy(a.status) \/ Falsy(a.sleep)
    \/ Falsy(a.diet) \/ Falsy(a.suicide) \/ Falsy(a.family_hist)

\* app.py:47
CgpaInvalid(a) ==
    a.status = Some("Student") /\ (a.cgpa = None \/ Val(a.cgpa) < 0)

\* Variant: the length is taken without strip().
ProfessionInvalidUntrimmed(a) ==
    /\ a.status = Some("Working Professional")
    /\ (Falsy(a.profession) \/ Len(Val(a.profession)) < 2)

\* app.py:51
ProfessionInvalid(a) ==
    /\ a.status = Some("Working Professional")
    /\ (Falsy(a.profession) \/ Len(strip(Val(a.profession))) < 2)

\* Variant: map.setdefault(key, default), which stores the default.
AfterSetdefault(map, key, default) ==
    IF key # None /\ Val(key) \notin DOMAIN map
    THEN (Val(key) :> default) @@ map ELSE map

\* The dictionary after map.get(key, default), app.py:40-44: get only reads.
AfterGet(map, key, default) == map

\* Variant: the work pressure is copied whatever the status.
InputDataKeepsWorkPressure(a, ap, wp, ss, js, fs) ==
    LET student == a.status = Some("Student")
        working == a.status = Some("Working Professional")
    IN  ("Gender" :> Val(a.gender)) @@
        ("Age" :> Val(a.age)) @@
        ("Working Professional or Student" :> Val(a.status)) @@
        ("Profession" :> IF working THEN Val(a.profession) ELSE "Student") @@
        ("Academic Pressure" :> IF student THEN ap ELSE 0) @@
        ("Work Pressure" :> wp) @@
        ("CGPA" :> IF student THEN Val(a.cgpa) ELSE 0) @@
        ("Study Satisfaction" :> IF student THEN ss ELSE 0) @@
        ("Job Satisfaction" :> IF working THEN js ELSE 0) @@
        ("Sleep Duration" :> Val(a.sleep)) @@
        ("Dietary Habits" :> Val(a.diet)) @@
        ("Have you ever had suicidal thoughts ?" :> Val(a.suicide)) @@
        ("Work/Study Hours" :> Val(a.hours)) @@
        ("Financial Stress" :> fs) @@
        ("Family History of Mental Illness" :> Val(a.family_hist))

\* Variant: the CGPA is copied whenever one was given.
InputDataKeepsCgpa(a, ap, wp, ss, js, fs) ==
    LET student == a.status = Some("Student")
        working == a.status = Some("Working Professional")
    IN  ("Gender" :> Val(a.gender)) @@
        ("Age" :> Val(a.age)) @@
        ("Working Professional or Student" :> Val(a.status)) @@
        ("Profession" :> IF working THEN Val(a.profession) ELSE "Student") @@
        ("Academic Pressure" :> IF student THEN ap ELSE 0) @@
        ("Work Pressure" :> IF working THEN wp ELSE 0) @@
        ("CGPA" :> IF a.cgpa # None THEN Val(a.cgpa) ELSE 0) @@
        ("Study Satisfaction" :> IF student THEN ss ELSE 0) @@
        ("Job Satisfaction" :> IF working THEN js ELSE 0) @@
        ("Sleep Duration" :> Val(a.sleep)) @@
        ("Dietary Habits" :> Val(a.diet)) @@
        ("Have you ever had suicidal thoughts ?" :> Val(a.suicide)) @@
        ("Work/Study Hours" :> Val(a.hours)) @@
        ("Financial Stress" :> fs) @@
        ("Family History of Mental Illness" :> Val(a.family_hist))

\* app.py:55-71
InputData(a, ap, wp, ss, js, fs) ==
    LET student == a.status = Some("Student")
        working == a.status = Some("Working Professional")
    IN  ("Gender" :> Val(a.gender)) @@
        ("Age" :> Val(a.age)) @@
        ("Working Professional or Student" :> Val(a.status)) @@
        ("Profession" :> IF working THEN Val(a.profession) ELSE "Student") @@
        ("Academic Pressure" :> IF student THEN ap ELSE 0) @@
        ("Work Pressure" :> IF working THEN wp ELSE 0) @@
        ("CGPA" :> IF student THEN Val(a.cgpa) ELSE 0) @@
        ("Study Satisfaction" :> IF student THEN ss ELSE 0) @@
        ("Job Satisfaction" :> IF working THEN js ELSE 0) @@
        ("Sleep Duration" :> Val(a.sleep)) @@
        ("Dietary Habits" :> Val(a.diet)) @@
        ("Have you ever had suicidal thoughts ?" :> Val(a.suicide)) @@
        ("Work/Study Hours" :> Val(a.hours)) @@
        ("Financial Stress" :> fs) @@
        ("Family History of Mental Illness" :> Val(a.family_hist))

\* LabelEncoder.transform of one value: its position in classes_, from 0.
InVocabulary(classes, v) == \E i \in 1..Len(classes) : classes[i] = v
Transform(classes, v) == (CHOOSE i \in 1..Len(classes) : classes[i] = v) - 1

\* Variant: a value outside the vocabulary is given the next free code.
RECURSIVE EncodeFromLenient(_, _, _)
EncodeFromLenient(df, encs, i) ==
    IF i > Len(EncodedCols) THEN [ df |-> df, unseen |-> None ]
    ELSE LET col == EncodedCols[i] IN
         EncodeFromLenient(
             [df EXCEPT ![col] = IF InVocabulary(encs[col], df[col])
                                 THEN Transform(encs[col], df[col])
                                 ELSE Len(encs[col])],
             encs, i + 1)

\* The loop of app.py:77-78 from its i-th column on: the frame it leaves and
\* the value that made transform raise, if one did.
RECURSIVE EncodeFrom(_, _, _)
EncodeFrom(df, encs, i) ==
    IF i > Len(EncodedCols) THEN [ df |-> df, unseen |-> None ]
    ELSE LET col == EncodedCols[i] IN
         IF InVocabulary(encs[col], df[col])
         THEN EncodeFrom([df EXCEPT ![col] = Transform(encs[col], df[col])],
                         encs, i + 1)
         ELSE [ df |-> df, unseen |-> Some(df[col]) ]

\* str(e) of the ValueError of LabelEncoder.transform
UnseenLabelText(v) == "y contains previously unseen labels: " \o v

\* pd.get_dummies, app.py:80: a numeric column is kept; a text column is
\* replaced by the indicator column "<column>_<value>" of the value it holds.
DummyName(col, v) == col \o "_" \o v
GetDummies(df) ==
    LET kept == DOMAIN df \cap NumericCols
        made == { DummyName(c, df[c]) : c \in DOMAIN df \cap ObjectCols }
    IN  [ c \in kept \cup made |-> IF c \in kept THEN df[c] ELSE 1 ]

\* app.py:82-84
ZeroFill(df, schema) ==
    LET cols == { schema[i] : i \in 1..Len(schema) }
    IN  [ c \in DOMAIN df \cup cols |-> IF c \in DOMAIN df THEN df[c] ELSE 0 ]

\* app.py:85
SelectColumns(df, schema) ==
    [ i \in 1..Len(schema) |-> << schema[i], df[schema[i]] >> ]

\* Variant: the columns of the schema that the expansion generated, without
\* the zero fill.
AlignFrameGeneratedOnly(df, schema) ==
    LET Generated(c) == c \in DOMAIN df
    IN  SelectColumns(df, SelectSeq(schema, Generated))

\* app.py:82-85: the frame handed to the classifier
AlignFrame(df, schema) == SelectColumns(ZeroFill(df, schema), schema)

\* model_pipeline.predict_proba(df_final)[0][1], app.py:88.  The classifier
\* raises on a frame that has not the number of columns it was fitted on;
\* otherwise its score is a fixed function of the frame, within [0, 1].
FeatureCountText == "X has a different number of features than the model is expecting"
Accepts(model, frame) == Len(frame) = model.n_features_in
PredictProba(model, frame) ==
    Max(0, Min(10000, model.intercept + model.coef * SumValues(frame)))

\* Variant: the lower threshold is compared with <=.
RiskPolicyClosedLow(p) ==
    IF p <= 3000 THEN
        [ level |-> "LOW RISK", color |-> "(green circle)",
          advice |-> "Continue your healthy habits! Regular exercise and mindfulness can maintain this state." ]
    ELSE IF p < 7000 THEN
        [ level |-> "MODERATE RISK", color |-> "(yellow circle)",
          advice |-> "You are showing some signs of stress. Consider a wellness check-in or guided meditation." ]
    ELSE
        [ level |-> "HIGH RISK", color |-> "(red circle)",
          advice |-> "Risk detected. We recommend speaking with a mental health professional or using a support hotline." ]

\* app.py:91-99, the probability in basis points; the glyphs by name
RiskPolicy(p) ==
    IF p < 3000 THEN
        [ level |-> "LOW RISK", color |-> "(green circle)",
          advice |-> "Continue your healthy habits! Regular exercise and mindfulness can maintain this state." ]
    ELSE IF p < 7000 THEN
        [ level |-> "MODERATE RISK", color |-> "(yellow circle)",
          advice |-> "You are showing some signs of stress. Consider a wellness check-in or guided meditation." ]
    ELSE
        [ level |-> "HIGH RISK", color |-> "(red circle)",
          advice |-> "Risk detected. We recommend speaking with a mental health professional or using a support hotline." ]

\* f"{prob:.2%}", app.py:101
FormatPercent(p) ==
    ToString(p \div 100) \o "." \o ToString((p % 100) \div 10)
        \o ToString(p % 10) \o "%"

\* app.py:101
ResultTriple(p) ==
    LET r == RiskPolicy(p)
    IN  << r.color \o " " \o r.level, FormatPercent(p), r.advice >>

(***************************************************************************)
(* The calls explored: the two forms below, filled in as the interface of  *)
(* app.py:112-132 lets a user fill them, with up to MaxPerturb arguments   *)
(* replaced by another value the function can be called with.              *)
(***************************************************************************)
MaxPerturb == 2

StudentForm ==
    [ name |-> Some("Ann"), phone |-> Some("555-0100"), gender |-> Some("Male"),
      age |-> Some(21), status |-> Some("Student"), profession |-> Some(""),
      acad_press_label |-> Some("2 = Average"),
      work_press_label |-> None, cgpa |-> Some(72),
      study_sat_label |-> Some("3 = Satisfied"), job_sat_label |-> None,
      sleep |-> Some("7-8 hours"), diet |-> Some("Healthy"),
      suicide |-> Some("No"), hours |-> Some(6),
      finance_stress_label |-> Some("2 = Low"), family_hist |-> Some("No") ]

WorkerForm ==
    [ name |-> Some("Ann"), phone |-> Some("555-0100"), gender |-> Some("Female"),
      age |-> Some(40), status |-> Some("Working Professional"),
      profession |-> Some("Teacher"),
      acad_press_label |-> None,
      work_press_label |-> Some("3 = High"), cgpa |-> None,
      study_sat_label |-> None, job_sat_label |-> Some("2 = Neutral"),
      sleep |-> Some("5-6 hours"), diet |-> Some("Moderate"),
      suicide |-> Some("Yes"), hours |-> Some(9),
      finance_stress_label |-> Some("4 = High"), family_hist |-> Some("Yes") ]

Forms == { StudentForm, WorkerForm }

Alternatives ==
    [ name |-> { Some("") },
      phone |-> { None },
      gender |-> { None, Some(""), Some("Other") },
      age |-> { Some(65) },
      status |-> { None, Some("Student"), Some("Working Professional"),
                   Some("Retired") },
      profession |-> { None, Some(" a "), Some("ab"), Some(" Chef") },
      acad_press_label |-> { None, Some("4 = Very high"), Some("high") },
      work_press_label |-> { None, Some("5 = Very very high"), Some("7") },
      cgpa |-> { None, Some(-1), Some(0), Some(85) },
      study_sat_label |-> { Some("1 = Dissatisfied"), Some("") },
      job_sat_label |-> { Some("4 = Very Satisfied"), Some("n/a") },
      sleep |-> { None, Some("Less than 5 hours") },
      diet |-> { Some(""), Some("Unhealthy") },
      suicide |-> { None, Some("Maybe") },
      hours |-> { Some(0) },
      finance_stress_label |-> { None, Some("5 = Extreme"), Some("6 = Worse") },
      family_hist |-> { Some(""), Some("Unknown") } ]

\* The calls of S, and those with one more argument replaced.
Perturb(S) ==
    S \cup UNION { { [ r EXCEPT ![f] = v ] : r \in S, v \in Alternatives[f] }
                   : f \in DOMAIN Alternatives }

RECURSIVE Ball(_)
Ball(k) == IF k = 0 THEN Forms ELSE Perturb(Ball(k - 1))

Requests == Ball(MaxPerturb)

(***************************************************************************)
(* State machine                                                           *)
(***************************************************************************)
Init ==
    /\ \E d \in Deployments :
          /\ model_pipeline = d.model
          /\ feature_names = d.schema
    /\ encoders = FittedEncoders
    /\ pressure_map = PressureMap
    /\ satisfaction_map = SatisfactionMap
    /\ financial_stress_map = FinancialStressMap
    /\ pc = "idle"
    /\ args = StudentForm
    /\ acad_press = None /\ work_press = None /\ study_sat = None
    /\ job_sat = None /\ finance_stress = None
    /\ input_data = None /\ df_input = None /\ df_encoded = None
    /\ df_final = None /\ prob = None /\ result = None /\ error = None
    /\ history = None

Finished == pc \in { "returned", "raised" }

\* app.py:30-34: the interface calls the function; its locals are fresh.
Enter(req) ==
    /\ pc' = "required"
    /\ args' = req
    /\ acad_press' = None /\ work_press' = None /\ study_sat' = None
    /\ job_sat' = None /\ finance_stress' = None
    /\ input_data' = None /\ df_input' = None /\ df_encoded' = None
    /\ df_final' = None /\ prob' = None /\ result' = None /\ error' = None
    /\ UNCHANGED artifacts

Submit ==
    /\ pc = "idle"
    /\ \E req \in Requests : Enter(req)
    /\ UNCHANGED history

\* app.py:36-37
ValidateRequired ==
    /\ pc = "required"
    /\ IF RequiredMissing(args)
       THEN pc' = "raised" /\ error' = Some(RequiredFieldsMessage)
       ELSE pc' = "translate" /\ UNCHANGED error
    /\ UNCHANGED << artifacts, args, acad_press, work_press, study_sat, job_sat,
                    finance_stress, input_data, df_input, df_encoded, df_final,
                    prob, result, history >>

\* app.py:40-44
TranslateLabels ==
    /\ pc = "translate"
    /\ acad_press' = Some(Get(pressure_map, args.acad_press_label, 0))
    /\ work_press' = Some(Get(pressure_map, args.work_press_label, 0))
    /\ study_sat' = Some(Get(satisfaction_map, args.study_sat_label, 0))
    /\ job_sat' = Some(Get(satisfaction_map, args.job_sat_label, 0))
    /\ finance_stress' =
          Some(Get(financial_stress_map, args.finance_stress_label, 1))
    /\ pressure_map' =
          AfterGet(AfterGet(pressure_map, args.acad_press_label, 0),
                   args.work_press_label, 0)
    /\ satisfaction_map' =
          AfterGet(AfterGet(satisfaction_map, args.study_sat_label, 0),
                   args.job_sat_label, 0)
    /\ financial_stress_map' =
          AfterGet(financial_stress_map, args.finance_stress_label, 1)
    /\ pc' = "status"
    /\ UNCHANGED << model_pipeline, encoders, feature_names, args, input_data,
                    df_input, df_encoded, df_final, prob, result, error,
                    history >>

\* app.py:47-52
ValidateStatus ==
    /\ pc = "status"
    /\ IF CgpaInvalid(args)
       THEN pc' = "raised" /\ error' = Some(CgpaMessage)
       ELSE IF ProfessionInvalid(args)
       THEN pc' = "raised" /\ error' = Some(ProfessionMessage)
       ELSE pc' = "assemble" /\ UNCHANGED error
    /\ UNCHANGED << artifacts, args, acad_press, work_press, study_sat, job_sat,
                    finance_stress, input_data, df_input, df_encoded, df_final,
                    prob, result, history >>

\* app.py:55-71
Assemble ==
    /\ pc = "assemble"
    /\ input_data' = Some(InputData(args, Val(acad_press), Val(work_press),
                                    Val(study_sat), Val(job_sat),
                                    Val(finance_stress)))
    /\ pc' = "encode"
    /\ UNCHANGED << artifacts, args, acad_press, work_press, study_sat, job_sat,
                    finance_stress, df_input, df_encoded, df_final, prob,
                    result, error, history >>

\* app.py:75-78, and app.py:103-104 when transform raises
Encode ==
    /\ pc = "encode"
    /\ LET e == EncodeFrom(Val(input_data), encoders, 1) IN
         /\ df_input' = Some(e.df)
         /\ IF e.unseen = None
            THEN pc' = "dummies" /\ UNCHANGED error
            ELSE /\ pc' = "raised"
                 /\ error' = Some(PredictionErrorPrefix
                                    \o UnseenLabelText(Val(e.unseen)))
    /\ UNCHANGED << artifacts, args, acad_press, work_press, study_sat, job_sat,
                    finance_stress, input_data, df_encoded, df_final, prob,
                    result, history >>

\* app.py:80
Dummies ==
    /\ pc = "dummies"
    /\ df_encoded' = Some(GetDummies(Val(df_input)))
    /\ pc' = "align"
    /\ UNCHANGED << artifacts, args, acad_press, work_press, study_sat, job_sat,
                    finance_stress, input_data, df_input, df_final, prob,
                    result, error, history >>

\* app.py:82-85
Align ==
    /\ pc = "align"
    /\ LET filled == ZeroFill(Val(df_encoded), feature_names) IN
         /\ df_encoded' = Some(filled)
         /\ df_final' = Some(AlignFrame(Val(df_encoded), feature_names))
    /\ pc' = "score"
    /\ UNCHANGED << artifacts, args, acad_press, work_press, study_sat, job_sat,
                    finance_stress, input_data, df_input, prob, result, error,
                    history >>

\* app.py:88, and app.py:103-104 when the classifier raises
Score ==
    /\ pc = "score"
    /\ IF Accepts(model_pipeline, Val(df_final))
       THEN /\ prob' = Some(PredictProba(model_pipeline, Val(df_final)))
            /\ pc' = "policy"
            /\ UNCHANGED error
       ELSE /\ pc' = "raised"
            /\ error' = Some(PredictionErrorPrefix \o FeatureCountText)
            /\ UNCHANGED prob
    /\ UNCHANGED << artifacts, args, acad_press, work_press, study_sat, job_sat,
                    finance_stress, input_data, df_input, df_encoded, df_final,
                    result, history >>

\* app.py:91-101
Policy ==
    /\ pc = "policy"
    /\ result' = Some(ResultTriple(Val(prob)))
    /\ pc' = "returned"
    /\ UNCHANGED << artifacts, args, acad_press, work_press, study_sat, job_sat,
                    finance_stress, input_data, df_input, df_encoded, df_final,
                    prob, error, history >>

\* app.py:101 and app.py:37, 48, 52, 104: the call returns or raises, and its
\* frame is dropped.  While no call runs, args holds the first form and the
\* locals are unset, as in Init.
Leave ==
    /\ Finished
    /\ pc' = "idle"
    /\ args' = StudentForm
    /\ acad_press' = None /\ work_press' = None /\ study_sat' = None
    /\ job_sat' = None /\ finance_stress' = None
    /\ input_data' = None /\ df_input' = None /\ df_encoded' = None
    /\ df_final' = None /\ prob' = None /\ result' = None /\ error' = None
    /\ UNCHANGED artifacts

Return ==
    /\ Leave
    /\ UNCHANGED history

Step ==
    \/ ValidateRequired \/ TranslateLabels \/ ValidateStatus \/ Assemble
    \/ Encode \/ Dummies \/ Align \/ Score \/ Policy

Next == Submit \/ Step \/ Return

Spec == Init /\ [][Next]_vars

(***************************************************************************)
(* Sequences of calls with an observer of the previous call.  The calls    *)
(* are the two forms with one of the arguments that decide validation and  *)
(* encoding replaced, under each name and phone; the deployments are those *)
(* whose score depends on the vector.                                      *)
(***************************************************************************)
ReplayFields == { "gender", "status", "profession", "cgpa",
                  "finance_stress_label" }

ReplayCores ==
    Forms \cup UNION { { [ r EXCEPT ![f] = v ] : r \in Forms,
                                                 v \in Alternatives[f] }
                       : f \in ReplayFields }

ReplayRequests ==
    { [ r EXCEPT !.name = n, !.phone = p ] :
        r \in ReplayCores,
        n \in { StudentForm.name } \cup Alternatives.name,
        p \in { StudentForm.phone } \cup Alternatives.phone }

InitReplay == Init /\ model_pipeline.coef # 0

SubmitReplay ==
    /\ pc = "idle"
    /\ \E req \in ReplayRequests : Enter(req)
    /\ UNCHANGED history

ReturnObserved ==
    /\ Leave
    /\ history' = Some([ args |-> args, df_final |-> df_final,
                         result |-> result, error |-> error ])

NextReplay == SubmitReplay \/ Step \/ ReturnObserved

SpecReplay == InitReplay /\ [][NextReplay]_vars

(***************************************************************************)
(* Properties                                                              *)
(***************************************************************************)
Student == args.status = Some("Student")
Working == args.status = Some("Working Professional")

\* The value the vector handed to the classifier holds in column c is v,
\* wherever the schema names c.
VectorHolds(c, v) ==
    \A i \in 1..Len(Val(df_final)) :
        Val(df_final)[i][1] = c => Val(df_final)[i][2] = v

InSchema(c) == \E i \in 1..Len(feature_names) : feature_names[i] = c

\* One of the six fields required whatever the status is None or empty.
RequiredFields == { "gender", "status", "sleep", "diet", "suicide",
                    "family_hist" }
AnyRequiredAbsent == \E f \in RequiredFields : args[f] = None \/ args[f] = Some("")

\* C1: a returned assessment is LOW (green) exactly when the probability is
\* below 0.30, MODERATE (yellow) exactly when it is in [0.30, 0.70), HIGH
\* (red) exactly when it is 0.70 or more, with the advice of that label.
C1_RiskBuckets ==
    pc = "returned" =>
        LET p == Val(prob)
            r == Val(result)
        IN  /\ p \in 0..10000
            /\ r[1] = "(green circle) LOW RISK" <=> p < 3000
            /\ r[1] = "(yellow circle) MODERATE RISK" <=> (3000 <= p /\ p < 7000)
            /\ r[1] = "(red circle) HIGH RISK" <=> p >= 7000
            /\ r[1] = "(green circle) LOW RISK" =>
                 r[3] = "Continue your healthy habits! Regular exercise and mindfulness can maintain this state."
            /\ r[1] = "(yellow circle) MODERATE RISK" =>
                 r[3] = "You are showing some signs of stress. Consider a wellness check-in or guided meditation."
            /\ r[1] = "(red circle) HIGH RISK" =>
                 r[3] = "Risk detected. We recommend speaking with a mental health professional or using a support hotline."
            /\ r[1] \in { "(green circle) LOW RISK",
                          "(yellow circle) MODERATE RISK",
                          "(red circle) HIGH RISK" }

C1_Witness ==
    /\ pc = "returned"
    /\ Val(prob) = 3000
    /\ Val(result)[1] = "(yellow circle) MODERATE RISK"

\* C2: for a student whose call built a vector, Work Pressure and Job
\* Satisfaction are 0 whatever labels were given, and Academic Pressure, CGPA
\* and Study Satisfaction are the values given.
C2_StudentVector ==
    (df_final # None /\ Student) =>
        /\ VectorHolds("Work Pressure", 0)
        /\ VectorHolds("Job Satisfaction", 0)
        /\ VectorHolds("Academic Pressure",
                       Get(PressureMap, args.acad_press_label, 0))
        /\ VectorHolds("CGPA", Val(args.cgpa))
        /\ VectorHolds("Study Satisfaction",
                       Get(SatisfactionMap, args.study_sat_label, 0))
        /\ Val(args.cgpa) >= 0

C2_Witness ==
    /\ pc = "returned" /\ Student
    /\ args.work_press_label = Some("5 = Very very high")
    /\ args.acad_press_label = Some("2 = Average")
    /\ args.cgpa = Some(72)
    /\ InSchema("Work Pressure") /\ InSchema("Academic Pressure")
    /\ InSchema("CGPA")

\* C3: for a working professional whose call built a vector, Academic
\* Pressure, CGPA and Study Satisfaction are 0 whatever answers were given.
C3_WorkerVector ==
    (df_final # None /\ Working) =>
        /\ VectorHolds("Academic Pressure", 0)
        /\ VectorHolds("CGPA", 0)
        /\ VectorHolds("Study Satisfaction", 0)

C3_Witness ==
    /\ pc = "returned" /\ Working
    /\ args.cgpa = Some(85)
    /\ args.acad_press_label = Some("4 = Very high")
    /\ InSchema("CGPA") /\ InSchema("Academic Pressure")

\* C4: a call with one of the six required fields None or empty raises the
\* required-fields error, and at that point no label was translated, no row
\* assembled, no encoder or one-hot expansion applied, no classifier called.
C4_RequiredFirst ==
    (pc \notin { "idle", "required" } /\ AnyRequiredAbsent) =>
        /\ pc = "raised"
        /\ error = Some(RequiredFieldsMessage)
        /\ acad_press = None /\ work_press = None /\ study_sat = None
        /\ job_sat = None /\ finance_stress = None
        /\ input_data = None /\ df_input = None /\ df_encoded = None
        /\ df_final = None /\ prob = None /\ result = None

C4_Witness ==
    /\ pc = "raised"
    /\ args.family_hist = Some("")
    /\ args.cgpa = None
    /\ error = Some(RequiredFieldsMessage)

\* C5: with the six required fields present, the call is rejected by
\* validation exactly when it is a student's without a CGPA or with a negative
\* one, or a working professional's without a profession of two characters
\* after trimming.
C5_StatusValidation ==
    (pc \notin { "idle", "required", "translate", "status" }
        /\ ~ AnyRequiredAbsent) =>
        LET badCgpa == Student /\ (args.cgpa = None \/ Val(args.cgpa) < 0)
            badProfession ==
                Working /\ ( \/ args.profession = None
                             \/ Len(strip(Val(args.profession))) < 2 )
        IN  /\ (error # None /\ Val(error) \in ValidationMessages)
                  <=> (badCgpa \/ badProfession)
            /\ error = Some(CgpaMessage) <=> badCgpa
            /\ error = Some(ProfessionMessage) <=> badProfession

C5_Witness ==
    /\ pc = "raised"
    /\ Working
    /\ args.profession = Some(" a ")
    /\ args.cgpa = Some(85)
    /\ error = Some(ProfessionMessage)

\* The columns that label encoding and one-hot expansion make of the row.
ProducedColumns ==
    NumericCols \cup { DummyName(c, Val(input_data)[c]) : c \in ObjectCols }

\* C6: the vector handed to the classifier has exactly the columns of the
\* schema, in schema order; a schema column that encoding and expansion did
\* not produce holds 0, and a produced column holds the produced value.
C6_SchemaAligned ==
    df_final # None =>
        LET v == Val(df_final) IN
        /\ Len(v) = Len(feature_names)
        /\ \A i \in 1..Len(v) :
              /\ v[i][1] = feature_names[i]
              /\ v[i][1] \notin ProducedColumns => v[i][2] = 0
              /\ v[i][1] \in NumericCols => v[i][2] = Val(df_input)[v[i][1]]
              /\ v[i][1] \in ProducedColumns \ NumericCols => v[i][2] = 1

C6_Witness ==
    /\ pc = "returned"
    /\ feature_names = ShortSchema
    /\ Working /\ args.profession = Some(" Chef")
    /\ \E i \in 1..Len(Val(df_final)) :
          /\ Val(df_final)[i][1] \notin ProducedColumns
          /\ Val(df_final)[i][2] = 0
    /\ \E c \in ProducedColumns : ~ InSchema(c)

\* A value of one of the three encoded fields is outside the vocabulary of
\* its encoder.
EncodedFields ==
    ("gender" :> "Gender") @@
    ("suicide" :> "Have you ever had suicidal thoughts ?") @@
    ("family_hist" :> "Family History of Mental Illness")
OutOfVocabulary ==
    \E f \in DOMAIN EncodedFields :
        \A i \in 1..Len(encoders[EncodedFields[f]]) :
            encoders[EncodedFields[f]][i] # Val(args[f])

IsPredictionError(e) ==
    /\ e # None
    /\ Val(e) \notin ValidationMessages
    /\ Len(Val(e)) >= Len(PredictionErrorPrefix)
    /\ SubSeq(Val(e), 1, Len(PredictionErrorPrefix)) = PredictionErrorPrefix

\* C7: a call that passed validation with a gender, suicidal-thoughts or
\* family-history value outside its encoder's vocabulary never reaches the
\* classifier; it raises the generic prediction error, which is none of the
\* validation messages, and returns nothing.
C7_UnseenLabel ==
    (input_data # None /\ OutOfVocabulary) =>
        /\ pc \in { "encode", "raised" }
        /\ df_encoded = None /\ df_final = None /\ prob = None /\ result = None
        /\ pc = "raised" => IsPredictionError(error)

C7_Witness ==
    /\ pc = "raised"
    /\ input_data # None
    /\ args.suicide = Some("Maybe")
    /\ IsPredictionError(error)

Unrecognized(map, label) == label = None \/ Val(label) \notin DOMAIN map

\* C9: a pressure or satisfaction label that is None or not a key of its map
\* is translated to 0, and such a financial-stress label to 1; no call is
\* rejected for it (every rejection has a cause in the other arguments or the
\* artifacts), and the vector, when built, holds the translated value.
C9_SilentDefaults ==
    /\ acad_press # None =>
          /\ Unrecognized(PressureMap, args.acad_press_label)
                => acad_press = Some(0)
          /\ Unrecognized(PressureMap, args.work_press_label)
                => work_press = Some(0)
          /\ Unrecognized(SatisfactionMap, args.study_sat_label)
                => study_sat = Some(0)
          /\ Unrecognized(SatisfactionMap, args.job_sat_label)
                => job_sat = Some(0)
          /\ Unrecognized(FinancialStressMap, args.finance_stress_label)
                => finance_stress = Some(1)
    /\ pc = "raised" =>
          \/ AnyRequiredAbsent
          \/ Student /\ (args.cgpa = None \/ Val(args.cgpa) < 0)
          \/ Working /\ ( \/ args.profession = None
                          \/ Len(strip(Val(args.profession))) < 2 )
          \/ OutOfVocabulary
          \/ Len(feature_names) # model_pipeline.n_features_in
    /\ df_final # None =>
          /\ Unrecognized(FinancialStressMap, args.finance_stress_label)
                => VectorHolds("Financial Stress", 1)
          /\ Unrecognized(PressureMap, args.acad_press_label)
                => VectorHolds("Academic Pressure", 0)
          /\ Unrecognized(PressureMap, args.work_press_label)
                => VectorHolds("Work Pressure", 0)
          /\ Unrecognized(SatisfactionMap, args.study_sat_label)
                => VectorHolds("Study Satisfaction", 0)
          /\ Unrecognized(SatisfactionMap, args.job_sat_label)
                => VectorHolds("Job Satisfaction", 0)

C9_Witness ==
    /\ pc = "returned"
    /\ args.finance_stress_label = Some("6 = Worse")
    /\ Student /\ args.acad_press_label = Some("high")
    /\ InSchema("Financial Stress") /\ InSchema("Academic Pressure")

\* The outcome of the running call and of the observed one.
SameOutcome ==
    /\ Val(history).df_final = df_final
    /\ Val(history).result = result
    /\ Val(history).error = error

\* C8: no call changes the classifier, the encoders, the schema or the three
\* maps; a finished call has a result or an error and not both; and a call
\* with the arguments of the call before it ends as that call did.
C8_Stateless ==
    /\ [][UNCHANGED artifacts]_vars
    /\ [](Finished => (result = None) # (error = None))
    /\ []((Finished /\ history # None /\ Val(history).args = args)
              => SameOutcome)

C8_Witness ==
    /\ pc = "returned"
    /\ history # None
    /\ Val(history).args = args
    /\ args.finance_stress_label = Some("6 = Worse")
    /\ Val(history).result = result

\* Two calls that agree on every argument but name and phone.
SameButNameAndPhone(a, b) ==
    [ a EXCEPT !.name = None, !.phone = None ]
        = [ b EXCEPT !.name = None, !.phone = None ]

\* C10: a call that differs from the call before it in name and phone only
\* builds the same vector and ends with the same result or the same error.
C10_NameAndPhoneIgnored ==
    (Finished /\ history # None /\ SameButNameAndPhone(Val(history).args, args))
        => SameOutcome

C10_Witness ==
    /\ pc = "returned"
    /\ history # None
    /\ SameButNameAndPhone(Val(history).args, args)
    /\ args.name = Some("") /\ Val(history).args.name = Some("Ann")
    /\ args.phone = None /\ Val(history).args.phone = Some("555-0100")
    /\ Val(history).result = result

====
